---------------------------- MODULE Spec2Model ----------------------------
(***************************************************************************)
(* Model of the evaluation-streaming engine of web-texts-evaluations:      *)
(*   - the App state container (unnamed/part_003: App component),          *)
(*   - the ProcessingController that drives useProcessingSSE               *)
(*     (src/components/ProcessingController.tsx, lines 1-443),             *)
(*   - the useSSE hook, payload-discriminator version (unnamed/part_002),  *)
(*   - the metrics service (src/services/metrics.ts).                      *)
(*                                                                         *)
(* Numbers: every score (human score, model score, median, deviation) is   *)
(* held as an integer number of half points, so that the mean of two       *)
(* integer human scores is exact.                                          *)
(***************************************************************************)
EXTENDS Integers, Sequences, FiniteSets, TLC

(***************************************************************************)
(* Bounds of the model                                                     *)
(***************************************************************************)
MaxRows == 2
MaxBatch == 2
MaxResults == 3
\* EventSource objects alive at one time, jobs submitted, and reconnection
\* timers pending at one time
MaxSources == 2
MaxJobs == 1
MaxTimers == 2

\* counts a batch_complete payload reports
MaxCompleted == 201
MaxTotal == 200
\* paired scores handed to calculateICC31
MaxPairs == 3

\* null / undefined of a numeric field (scores and counts are >= 0)
NULL == -1
\* a score that is undefined (the column is absent) and one that is NaN (the
\* cell is not a number), where they are told apart from null
UndefinedScore == -2
NaN == -3
\* undefined of a string field
Undefined == "undefined"
\* null of the job id and of the stream url (job ids are 1, 2, ...)
NoJob == 0

\* participant identifiers of the uploaded rows and of the results
Ids == {"p1", "p2"}
\* model scores a result can carry (half points)
Notas == {0, 1}
\* the human scores of a row: evaluacion_1 is required, the others optional
EvalChoices == {<<2, NULL, NULL>>, <<2, 4, NULL>>}
\* the scores of the pairs handed to calculateICC31 (half points)
Scores == {0, 1, 3, 20}

VARIABLES
    \* App state (unnamed/part_003:13-36)
    original, results, merged, processing, metrics,
    \* useSSE: its state, its refs, and the EventSource objects it created
    sse,
    \* ProcessingController: its component state and its rate history ref
    ctrl,
    \* job-submission requests awaiting their response, job ids issued
    pendingStarts, jobsIssued,
    \* history: the progress of the session when the handleStartProcessing
    \* that awaits its response began
    progressBeforeStart,
    \* batch_complete payloads on their way to handleProgress
    incoming,
    \* MetricsPanel: the paired score arrays it extracts and the ICC it
    \* computes from them
    comparison

appVars == <<original, results, merged, processing, metrics>>
sessionVars == <<sse, ctrl, pendingStarts, jobsIssued, progressBeforeStart,
                   incoming, comparison>>
vars == <<original, results, merged, processing, metrics, sse, ctrl,
          pendingStarts, jobsIssued, progressBeforeStart,
                   incoming, comparison>>

(***************************************************************************)
(* Sequences                                                               *)
(***************************************************************************)
SeqsUpTo(S, n) == UNION {[1..k -> S] : k \in 0..n}

RECURSIVE Insert(_, _)
Insert(x, s) ==
    IF s = <<>> THEN <<x>>
    ELSE IF x < Head(s) THEN <<x>> \o s
    ELSE <<Head(s)>> \o Insert(x, Tail(s))

RECURSIVE SortAsc(_)
SortAsc(s) == IF s = <<>> THEN <<>> ELSE Insert(Head(s), SortAsc(Tail(s)))

Abs(x) == IF x < 0 THEN -x ELSE x

(***************************************************************************)
(* types/app.ts                                                            *)
(***************************************************************************)
CSVRow(id, ev) ==
    [id_participante |-> id,
     evaluacion_1 |-> ev[1], evaluacion_2 |-> ev[2], evaluacion_3 |-> ev[3]]

CSVRows == {CSVRow(id, ev) : id \in Ids, ev \in EvalChoices}

APIResponse(id, n) == [id_alumno |-> id, nota |-> n]

APIResponses == {APIResponse(id, n) : id \in Ids, n \in Notas}

InitialProgress == [completed |-> 0, total |-> 0, percentage |-> 0]

InitialProcessing ==
    [isActive |-> FALSE, jobId |-> NoJob,
     progress |-> InitialProgress, timeRemaining |-> NULL]

InitialMetrics ==
    [icc |-> NULL, meanDeviation |-> NULL, stdDeviation |-> NULL,
     reliabilityMet |-> FALSE, processedCount |-> 0]

\* null where a number held as a ratio is expected (those are >= 0)
NullRatio == <<NULL, 1>>

\* MetricsPanel before any result: no comparison, no ICC
NoComparison ==
    [modelScores |-> <<>>, humanMedians |-> <<>>,
     computed |-> FALSE, icc |-> NullRatio]

(***************************************************************************)
(* services/metrics.ts                                                     *)
(***************************************************************************)
\* a median taken without sorting the scores
calculateMedianUnsorted(row) ==
    LET all == <<row.evaluacion_1, row.evaluacion_2, row.evaluacion_3>>
        scores == SelectSeq(all,
                      LAMBDA v : v # NULL /\ v # UndefinedScore /\ v # NaN)
        mid == Len(scores) \div 2
    IN  IF Len(scores) = 0 THEN NULL
        ELSE IF Len(scores) % 2 # 0 THEN scores[mid + 1]
        ELSE (scores[mid] + scores[mid + 1]) \div 2

\* calculateMedian: the row's present scores, sorted; the middle one, or the
\* mean of the two middle ones (in half points, the mean of two even numbers)
calculateMedian(row) ==
    LET all == <<row.evaluacion_1, row.evaluacion_2, row.evaluacion_3>>
        scores == SortAsc(SelectSeq(all,
                      LAMBDA v : v # NULL /\ v # UndefinedScore /\ v # NaN))
        mid == Len(scores) \div 2
    IN  IF Len(scores) = 0 THEN NULL
        ELSE IF Len(scores) % 2 # 0 THEN scores[mid + 1]
        ELSE (scores[mid] + scores[mid + 1]) \div 2

\* Array.prototype.find over the results: the index of the first result of
\* the identifier, 0 when there is none
FindResult(apiResults, id) ==
    LET hits == {i \in DOMAIN apiResults : apiResults[i].id_alumno = id}
    IN  IF hits = {} THEN 0 ELSE CHOOSE i \in hits : \A j \in hits : i <= j

combineRow(originalRow, apiResults) ==
    LET k == FindResult(apiResults, originalRow.id_participante)
        mediana_humana == calculateMedian(originalRow)
    IN  [id_participante |-> originalRow.id_participante,
         evaluacion_1 |-> originalRow.evaluacion_1,
         evaluacion_2 |-> originalRow.evaluacion_2,
         evaluacion_3 |-> originalRow.evaluacion_3,
         id_alumno |-> IF k = 0 THEN Undefined ELSE apiResults[k].id_alumno,
         nota |-> IF k = 0 THEN NULL ELSE apiResults[k].nota,
         mediana_humana |-> mediana_humana,
         desviacion |-> IF k # 0 /\ mediana_humana # NULL
                        THEN Abs(apiResults[k].nota - mediana_humana)
                        ELSE NULL]

\* a merge that keeps only the rows a result has arrived for
combineMatchedRows(originalData, apiResults) ==
    LET matched == SelectSeq(originalData,
                       LAMBDA row :
                           FindResult(apiResults, row.id_participante) # 0)
    IN  [i \in DOMAIN matched |-> combineRow(matched[i], apiResults)]

combineDataWithResults(originalData, apiResults) ==
    [i \in DOMAIN originalData |-> combineRow(originalData[i], apiResults)]

\* the sum and the sum of the squares of a sequence of integers
RECURSIVE Sum(_)
Sum(s) == IF s = <<>> THEN 0 ELSE Head(s) + Sum(Tail(s))

SumOfSquares(s) == Sum([i \in DOMAIN s |-> s[i] * s[i]])

RECURSIVE GCD(_, _)
GCD(a, b) == IF b = 0 THEN a ELSE GCD(b, a % b)

\* the number num / den (den > 0), as the pair of its lowest terms
Ratio(num, den) ==
    LET g == GCD(Abs(num), den)
    IN  <<num \div g, den \div g>>

\* Math.max(0, Math.min(1, x))
clamp01(x) ==
    IF x[1] < 0 THEN Ratio(0, 1)
    ELSE IF x[1] > x[2] THEN Ratio(1, 1)
    ELSE x

\* the ratio with the two mean squares exchanged
calculateWithinOverBetween(modelScores, humanMedians) ==
    IF Len(modelScores) # Len(humanMedians) \/ Len(modelScores) < 2
    THEN NullRatio
    ELSE LET n == Len(modelScores)
             grand == Sum(modelScores) + Sum(humanMedians)
             between == [i \in 1..n |->
                            n * (modelScores[i] + humanMedians[i]) - grand]
             within == [i \in 1..n |-> modelScores[i] - humanMedians[i]]
             MSB == SumOfSquares(between)
             MSW == SumOfSquares(within) * n * (n - 1)
         IN  IF MSB + MSW = 0 THEN NullRatio
             ELSE clamp01(Ratio(MSW - MSB, MSB + MSW))

\* the ratio as it is before Math.max and Math.min
calculateUnclampedICC(modelScores, humanMedians) ==
    IF Len(modelScores) # Len(humanMedians) \/ Len(modelScores) < 2
    THEN NullRatio
    ELSE LET n == Len(modelScores)
             grand == Sum(modelScores) + Sum(humanMedians)
             between == [i \in 1..n |->
                            n * (modelScores[i] + humanMedians[i]) - grand]
             within == [i \in 1..n |-> modelScores[i] - humanMedians[i]]
             MSB == SumOfSquares(between)
             MSW == SumOfSquares(within) * n * (n - 1)
         IN  IF MSB + MSW = 0 THEN NullRatio
             ELSE Ratio(MSB - MSW, MSB + MSW)

\* calculateICC31. The scores are multiples of half a point and the
\* function's quantities are held exactly, as integers over a common
\* denominator, with n the number of pairs and the scores in half points:
\*   grandMean             = grand / 2n
\*   rowMean(i)            = (model[i] + human[i]) / 2
\*   rowMean(i)-grandMean  = between[i] / 2n
\*   SSB = sum of 2 (rowMean(i) - grandMean)^2        = SSB / 2n^2
\*   SSW = sum of (model[i] - rowMean(i))^2
\*              + (human[i] - rowMean(i))^2            = SSW / 2
\*   MSB = SSB / (n - 1),  MSW = SSW / n,  both over 2 n^2 (n - 1)
\* SST is accumulated by the code and never read.
\* The double the code computes is null exactly when this value is, is 1
\* exactly when this value is, and is otherwise within 3 / 10^16 of it
\* (compared on scores 0, 0.5, ..., 10 for n = 2, 3 and samples of n <= 7).
calculateICC31(modelScores, humanMedians) ==
    IF Len(modelScores) # Len(humanMedians) \/ Len(modelScores) < 2
    THEN NullRatio
    ELSE LET n == Len(modelScores)
             grand == Sum(modelScores) + Sum(humanMedians)
             between == [i \in 1..n |->
                            n * (modelScores[i] + humanMedians[i]) - grand]
             within == [i \in 1..n |-> modelScores[i] - humanMedians[i]]
             SSB == SumOfSquares(between)
             SSW == SumOfSquares(within)
             MSB == SSB
             MSW == SSW * n * (n - 1)
             denominator == MSB + MSW
         IN  IF denominator = 0 THEN NullRatio
             ELSE clamp01(Ratio(MSB - MSW, denominator))

\* a pairing that takes the results one by one, whether or not a row exists
resultPairs(originalData, apiResults) ==
    [i \in DOMAIN apiResults |->
        LET hits == {j \in DOMAIN originalData :
                        originalData[j].id_participante
                            = apiResults[i].id_alumno}
            human == IF hits = {} THEN 0
                     ELSE calculateMedian(originalData[CHOOSE j \in hits :
                                              \A l \in hits : j <= l])
        IN  [model |-> apiResults[i].nota,
             human |-> human,
             deviation |-> Abs(apiResults[i].nota - human)]]

\* calculateMetrics, the loop that pairs each original row with the first
\* result of its identifier and skips the rows that have no result or no
\* human score
RECURSIVE validPairs(_, _)
validPairs(originalData, apiResults) ==
    IF originalData = <<>> THEN <<>>
    ELSE LET originalRow == Head(originalData)
             k == FindResult(apiResults, originalRow.id_participante)
             humanMedian == calculateMedian(originalRow)
             rest == validPairs(Tail(originalData), apiResults)
         IN  IF k = 0 \/ humanMedian = NULL THEN rest
             ELSE <<[model |-> apiResults[k].nota,
                     human |-> humanMedian,
                     deviation |-> Abs(apiResults[k].nota - humanMedian)]>>
                  \o rest

\* a verdict that any positive ICC satisfies
reliableWhenPositive(icc) == icc # NullRatio /\ icc[1] > 0

\* icc > 0.8
reliable(icc) == icc # NullRatio /\ 5 * icc[1] > 4 * icc[2]

\* calculateMetrics: icc, meanDeviation (in half points), reliabilityMet,
\* processedCount and stats.validPairs (NULL when stats is null). The
\* standard deviation, the correlation and the texts are not represented.
calculateMetrics(originalData, apiResults) ==
    LET processedCount == Len(apiResults)
        pairs == validPairs(originalData, apiResults)
        modelScores == [i \in DOMAIN pairs |-> pairs[i].model]
        humanScores == [i \in DOMAIN pairs |-> pairs[i].human]
        deviations == [i \in DOMAIN pairs |-> pairs[i].deviation]
        icc == calculateICC31(modelScores, humanScores)
    IN  IF processedCount = 0
        THEN [icc |-> NullRatio, meanDeviation |-> NullRatio,
              reliabilityMet |-> FALSE,
              processedCount |-> 0, validPairs |-> NULL]
        ELSE IF Len(pairs) < 2
        THEN [icc |-> NullRatio, meanDeviation |-> NullRatio,
              reliabilityMet |-> FALSE,
              processedCount |-> processedCount, validPairs |-> NULL]
        ELSE [icc |-> icc,
              meanDeviation |-> Ratio(Sum(deviations), Len(deviations)),
              reliabilityMet |-> reliable(icc),
              processedCount |-> processedCount,
              validPairs |-> Len(pairs)]

(***************************************************************************)
(* MetricsPanel (components/MetricsPanel.tsx:27-105)                       *)
(***************************************************************************)
\* Array.prototype.find over the rows: the index of the first row of the
\* identifier, 0 when there is none
FindRow(originalData, id) ==
    LET hits == {i \in DOMAIN originalData :
                    originalData[i].id_participante = id}
    IN  IF hits = {} THEN 0 ELSE CHOOSE i \in hits : \A j \in hits : i <= j

\* the comparisons the panel collects (lines 42-58): one per result whose
\* identifier a row carries, with the median of the first such row
RECURSIVE comparisons(_, _)
comparisons(originalData, apiResults) ==
    IF apiResults = <<>> THEN <<>>
    ELSE LET result == Head(apiResults)
             k == FindRow(originalData, result.id_alumno)
             rest == comparisons(originalData, Tail(apiResults))
         IN  IF k = 0 THEN rest
             ELSE IF calculateMedian(originalData[k]) = NULL THEN rest
             ELSE <<[modelScore |-> result.nota,
                     humanMedian |-> calculateMedian(originalData[k])]>>
                  \o rest

\* the icc of calculatedMetrics (lines 28-39, 60-76)
panelIcc(originalData, apiResults) ==
    LET cs == comparisons(originalData, apiResults)
    IN  IF Len(apiResults) = 0 \/ Len(cs) = 0 THEN NullRatio
        ELSE calculateICC31([i \in DOMAIN cs |-> cs[i].modelScore],
                            [i \in DOMAIN cs |-> cs[i].humanMedian])

(***************************************************************************)
(* App (unnamed/part_003)                                                  *)
(***************************************************************************)
\* a batch appended whole, whatever the result set already holds
allNewResults(prevResults, newResults) == newResults

\* the results of a batch that handleResultsUpdate appends: those whose
\* identifier the previous result set does not hold
uniqueNewResults(prevResults, newResults) ==
    LET existingIds == {prevResults[i].id_alumno : i \in DOMAIN prevResults}
    IN  SelectSeq(newResults, LAMBDA r : r.id_alumno \notin existingIds)

\* a load that keeps the results and the metrics of the previous file
handleDataLoadedKeepingResults(data) ==
    /\ original' = data
    /\ merged' = combineDataWithResults(data, results)
    /\ processing' = InitialProcessing
    /\ UNCHANGED <<results, metrics>>

handleDataLoaded(data) ==
    /\ original' = data
    /\ results' = <<>>
    /\ merged' = <<>>
    /\ processing' = InitialProcessing
    /\ metrics' = InitialMetrics

handleResultsUpdate(newResults) ==
    LET allResults == results \o uniqueNewResults(results, newResults)
    IN  /\ results' = allResults
        /\ merged' = combineDataWithResults(original, allResults)
        /\ metrics' = [metrics EXCEPT !.processedCount = Len(allResults)]
        /\ UNCHANGED original

(***************************************************************************)
(* useSSE (unnamed/part_002)                                               *)
(***************************************************************************)
\* the configuration useProcessingSSE passes (part_002:343)
maxReconnectAttempts == 3

\* SSEState.error
NoError == "null"
ErrConnection == "Error de conexion con el servidor"
ErrLost == "Conexion perdida. No se pudo reconectar automaticamente."
ErrRetrying == "Reintentando conexion"
ErrTimeout == "Timeout de conexion"
\* the messages handed to the onError callback
MsgTransport == "Error de conexion durante el procesamiento"
MsgMaxAttempts == "Maximo numero de intentos de reconexion alcanzado"
MsgParse == "Error parseando datos del servidor"
MsgStart == "Error al iniciar procesamiento"

\* EventSource.readyState; NONE: the object does not exist (yet)
NONE == "NONE"
CONNECTING == "CONNECTING"
OPEN == "OPEN"
CLOSED == "CLOSED"

Sources == 1..MaxSources

InitialSSE ==
    [isConnected |-> FALSE, isConnecting |-> FALSE,
     error |-> NoError, reconnectCount |-> 0,
     eventSourceRef |-> 0, urlRef |-> NoJob,
     \* pending reconnection timers; whether reconnectTimeoutRef holds the
     \* latest of them; the EventSource the pending connection timeout
     \* closes over (0: none pending)
     reconnectTimers |-> 0, reconnectTracked |-> FALSE,
     connectionTimeout |-> 0,
     \* each EventSource's readyState
     sources |-> [s \in Sources |-> NONE]]

FreeSources(h) == {s \in Sources : h.sources[s] = NONE}

\* EventSource.close()
CloseSource(h, s) ==
    IF s = 0 THEN h ELSE [h EXCEPT !.sources[s] = CLOSED]

\* new EventSource(url): a new object, CONNECTING
NewSource(h) == CHOOSE s \in FreeSources(h) : \A t \in FreeSources(h) : s <= t

clearReconnectTimeout(h) ==
    [h EXCEPT !.reconnectTimers = IF h.reconnectTracked THEN @ - 1 ELSE @,
              !.reconnectTracked = FALSE]

clearTimeouts(h) ==
    [clearReconnectTimeout(h) EXCEPT !.connectionTimeout = 0]

closeConnection(h) ==
    LET c == clearTimeouts(h)
    IN  [CloseSource(c, c.eventSourceRef) EXCEPT
            !.eventSourceRef = 0,
            !.isConnected = FALSE,
            !.isConnecting = FALSE]

connectToSSE(h, sseUrl) ==
    LET c == closeConnection(h)
        es == NewSource(c)
    IN  [c EXCEPT !.isConnecting = TRUE,
                  !.error = NoError,
                  !.sources[es] = CONNECTING,
                  !.eventSourceRef = es,
                  !.urlRef = sseUrl,
                  !.connectionTimeout = es]

\* the cleanup of the url effect: no setState
effectCleanup(h) ==
    LET c == clearTimeouts(h)
    IN  [CloseSource(c, c.eventSourceRef) EXCEPT !.eventSourceRef = 0]

\* the url effect, run when the url (the job id) has changed
urlEffect(h, oldUrl, url) ==
    IF url = oldUrl THEN h
    ELSE LET c == effectCleanup(h)
         IN  IF url # NoJob /\ url # c.urlRef THEN connectToSSE(c, url)
             ELSE IF url = NoJob THEN closeConnection(c)
             ELSE c

\* whether the url effect creates an EventSource
EffectConnects(h, oldUrl, url) ==
    url # oldUrl /\ url # NoJob /\ url # h.urlRef

\* an onopen that keeps the count of attempts
onopenKeepingCount(h) ==
    [h EXCEPT !.connectionTimeout = 0,
              !.isConnected = TRUE,
              !.isConnecting = FALSE,
              !.error = NoError]

onopen(h) ==
    [h EXCEPT !.connectionTimeout = 0,
              !.isConnected = TRUE,
              !.isConnecting = FALSE,
              !.error = NoError,
              !.reconnectCount = 0]

\* a cap that lets one more attempt through
attemptsExhaustedLate(count) == count > maxReconnectAttempts

\* onerror, part_002:176: no attempt is left
attemptsExhausted(count) == count >= maxReconnectAttempts

\* onerror of an EventSource whose readyState is `readyState` at that time
onerror(h, readyState) ==
    LET e == [h EXCEPT !.isConnected = FALSE,
                       !.isConnecting = FALSE,
                       !.error = ErrConnection]
    IN  IF readyState # CLOSED
        THEN IF attemptsExhausted(e.reconnectCount)
             THEN [e EXCEPT !.isConnecting = FALSE, !.error = ErrLost]
             ELSE [e EXCEPT !.reconnectCount = @ + 1,
                            !.reconnectTimers = @ + 1,
                            !.reconnectTracked = TRUE,
                            !.isConnecting = TRUE,
                            !.error = ErrRetrying]
        ELSE e

\* the callbacks onerror invokes
onerrorCallbacks(h, readyState) ==
    IF readyState # CLOSED /\ attemptsExhausted(h.reconnectCount)
    THEN <<MsgTransport, MsgMaxAttempts>>
    ELSE <<MsgTransport>>

\* onmessage, data.event = "complete": after the onComplete callback
oncomplete(h) ==
    LET c == clearTimeouts(h)
    IN  [CloseSource(c, c.eventSourceRef) EXCEPT
            !.eventSourceRef = 0,
            !.isConnected = FALSE,
            !.isConnecting = FALSE]

\* the reconnection timer's callback (part_002:188-194)
reconnectTimerFires(h) ==
    LET t == [h EXCEPT !.reconnectTimers = @ - 1,
                       !.reconnectTracked =
                           IF h.reconnectTimers = 1 THEN FALSE ELSE @]
    IN  IF t.urlRef # NoJob
        THEN LET es == NewSource(t)
             IN  [t EXCEPT !.sources[es] = CONNECTING,
                           !.eventSourceRef = es]
        ELSE t

\* whether the connection timeout's callback finds no open connection
timeoutExpired(h) ==
    h.eventSourceRef = 0 \/ h.sources[h.eventSourceRef] # OPEN

\* the connection timeout's callback (part_002:227-237)
connectionTimeoutFires(h) ==
    LET t == [h EXCEPT !.connectionTimeout = 0]
    IN  IF timeoutExpired(t)
        THEN [CloseSource(t, h.connectionTimeout) EXCEPT
                 !.isConnecting = FALSE,
                 !.error = ErrTimeout]
        ELSE t

reconnect(h) ==
    IF h.urlRef # NoJob
    THEN connectToSSE([h EXCEPT !.reconnectCount = 0], h.urlRef)
    ELSE h

disconnect(h) == closeConnection([h EXCEPT !.urlRef = NoJob])

(***************************************************************************)
(* ProcessingController (components/ProcessingController.tsx:22-443)       *)
(***************************************************************************)
InitialCtrl ==
    [error |-> NoError, startTime |-> NULL,
     connectionStatus |-> "disconnected",
     \* rateCalculationRef
     rateTimes |-> <<>>, rateCounts |-> <<>>]

\* The numbers of line 74 are IEEE-754 doubles. A positive double is
\* sig * 2^(exp - 52), its significand 2^52 <= sig < 2^53 held as three
\* limbs <<a, b, c>>: sig = a * 2^36 + b * 2^18 + c, with b, c < 2^18.
TwoTo(k) ==
    <<1, 2, 4, 8, 16, 32, 64, 128, 256, 512, 1024, 2048, 4096, 8192, 16384,
      32768, 65536, 131072, 262144, 524288, 1048576, 2097152, 4194304,
      8388608, 16777216, 33554432>>[k + 1]

Limb == TwoTo(18)

\* the limbs of a * 2^36 + b * 2^18 + c, for any naturals a, b, c
carryLimbs(a, b, c) ==
    LET b1 == b + c \div Limb
    IN  <<a + b1 \div Limb, b1 % Limb, c % Limb>>

\* the double next above [sig, exp]
nextUp(sig, exp) ==
    LET up == carryLimbs(sig[1], sig[2], sig[3] + 1)
    IN  IF up[1] = TwoTo(17)
        THEN [sig |-> <<TwoTo(16), 0, 0>>, exp |-> exp + 1]
        ELSE [sig |-> up, exp |-> exp]

\* round to nearest, ties to even: sig is the exact value cut off, `rest`
\* what was cut, twice `half` its unit
roundToDouble(sig, exp, rest, half) ==
    IF rest > half \/ (rest = half /\ sig[3] % 2 = 1)
    THEN nextUp(sig, exp)
    ELSE [sig |-> sig, exp |-> exp]

\* n / d as 2^e times a quotient of [1, 2)
RECURSIVE normalise(_, _, _)
normalise(n, d, e) ==
    IF n < d THEN normalise(2 * n, d, e - 1)
    ELSE IF n >= 2 * d THEN normalise(n, 2 * d, e + 1)
    ELSE [n |-> n, d |-> d, e |-> e]

\* the double n / d, for integers 0 < n < 2048 and 0 < d < 2048
divide(n, d) ==
    LET q == normalise(n, d, 0)
        r0 == q.n - q.d
        a == TwoTo(16) + (r0 * TwoTo(16)) \div q.d
        r1 == (r0 * TwoTo(16)) % q.d
        b == (r1 * Limb) \div q.d
        r2 == (r1 * Limb) % q.d
        c == (r2 * Limb) \div q.d
        r3 == (r2 * Limb) % q.d
    IN  roundToDouble(<<a, b, c>>, q.e, 2 * r3, q.d)

\* the bits by which a product's leading limb exceeds a significand's
RECURSIVE excess(_, _)
excess(a, s) == IF a < TwoTo(17 + s) THEN s ELSE excess(a, s + 1)

\* the double x * k, for an integer 0 < k < 2^14
times(x, k) ==
    LET p == carryLimbs(x.sig[1] * k, x.sig[2] * k, x.sig[3] * k)
        s == excess(p[1], 0)
        cut == TwoTo(s)
        lift == TwoTo(18 - s)
        sig == <<p[1] \div cut,
                 (p[1] % cut) * lift + p[2] \div cut,
                 (p[2] % cut) * lift + p[3] \div cut>>
    IN  IF s = 0 THEN [sig |-> sig, exp |-> x.exp]
        ELSE roundToDouble(sig, x.exp + s, 2 * (p[3] % cut), cut)

\* Math.round of a positive double below 2^17: halves go up
MathRound(x) ==
    IF x.exp < -1 THEN 0
    ELSE IF x.exp = -1 THEN 1
    ELSE x.sig[1] \div TwoTo(16 - x.exp)
         + (IF x.exp < 16 THEN (x.sig[1] \div TwoTo(15 - x.exp)) % 2
            ELSE x.sig[2] \div TwoTo(17))

\* handleProgress, line 74: Math.round((completed / total) * 100)
percentageOf(completed, total) ==
    IF completed = 0 THEN 0
    ELSE MathRound(times(divide(completed, total), 100))

\* calculateTimeRemaining at Date.now() = now, in whole milliseconds
calculateTimeRemaining(startTime, completed, total, now) ==
    IF startTime = NULL \/ completed = 0 THEN NULL
    ELSE LET elapsed == now - startTime
             remaining == ((total - completed) * elapsed) \div completed
         IN  IF remaining < 0 THEN 0 ELSE remaining

\* a rate history that keeps every sample
pushSampleUnbounded(samples, x) == Append(samples, x)

\* the rate history after one more sample: the last 5 are kept
pushSample(samples, x) ==
    LET all == Append(samples, x)
    IN  IF Len(all) > 5 THEN Tail(all) ELSE all

handleSSEError(c, error) ==
    [c EXCEPT !.connectionStatus = "reconnecting", !.error = error]

RECURSIVE handleSSEErrors(_, _)
handleSSEErrors(c, errors) ==
    IF errors = <<>> THEN c
    ELSE handleSSEErrors(handleSSEError(c, Head(errors)), Tail(errors))

\* the effect that follows the connection state of the hook (lines 129-144)
monitorPass(c, h, jobId) ==
    IF jobId # NoJob
    THEN IF h.isConnecting /\ c.connectionStatus # "connecting"
         THEN [c EXCEPT !.connectionStatus = "connecting", !.error = NoError]
         ELSE IF h.isConnected /\ c.connectionStatus # "connected"
         THEN [c EXCEPT !.connectionStatus = "connected", !.error = NoError]
         ELSE IF h.error # NoError
         THEN [c EXCEPT !.connectionStatus = "reconnecting", !.error = h.error]
         ELSE c
    ELSE [c EXCEPT !.connectionStatus = "disconnected"]

\* the effect runs again while it changes connectionStatus, one of its
\* dependencies; when it never settles, it is found in either state
monitorSettle(c, h, jobId) ==
    LET c1 == monitorPass(c, h, jobId)
        c2 == monitorPass(c1, h, jobId)
        c3 == monitorPass(c2, h, jobId)
    IN  IF c1.connectionStatus = c.connectionStatus THEN {c1}
        ELSE IF c2.connectionStatus = c1.connectionStatus THEN {c2}
        ELSE IF c3.connectionStatus = c2.connectionStatus THEN {c3}
        ELSE {c2, c3}

monitorDeps(c, h, jobId) ==
    <<h.isConnecting, h.isConnected, h.error, c.connectionStatus, jobId>>

\* a closed EventSource that neither eventSourceRef nor the pending
\* connection timeout refers to delivers no event and is never read again:
\* the object is dropped
Unreferenced(h, s) ==
    h.sources[s] = CLOSED /\ s # h.eventSourceRef /\ s # h.connectionTimeout

dropClosed(h) ==
    [h EXCEPT
        !.sources = [s \in Sources |->
                        IF Unreferenced(h, s) THEN NONE ELSE h.sources[s]]]

\* the render that follows a handler: the hook's and the controller's new
\* state, and the monitor effect when one of its dependencies has changed
Commit(h, c) ==
    /\ sse' = dropClosed(h)
    /\ ctrl' \in IF monitorDeps(c, h, processing'.jobId)
                    = monitorDeps(ctrl, sse, processing.jobId)
                 THEN {c}
                 ELSE monitorSettle(c, h, processing'.jobId)

canStart == ~processing.isActive /\ Len(original) > 0

canStop == processing.isActive /\ processing.jobId # NoJob

canReconnect ==
    /\ processing.isActive
    /\ (ctrl.connectionStatus = "reconnecting" \/ ctrl.error # NoError)

\* handleDataLoaded, and the url effect of the hook when a job id was set
LoadData(data) ==
    /\ handleDataLoaded(data)
    /\ Commit(urlEffect(sse, processing.jobId, NoJob), ctrl)
    /\ UNCHANGED <<pendingStarts, jobsIssued, progressBeforeStart,
                   incoming, comparison>>

\* handleStartProcessing up to its await (lines 209-227)
StartBegin(now) ==
    /\ canStart
    /\ pendingStarts + jobsIssued < MaxJobs
    /\ processing' = [processing EXCEPT
           !.isActive = TRUE,
           !.progress = [completed |-> 0, total |-> Len(original),
                         percentage |-> 0],
           !.timeRemaining = NULL]
    /\ Commit(sse, [ctrl EXCEPT !.error = NoError,
                                !.startTime = now,
                                !.connectionStatus = "connecting",
                                !.rateTimes = <<>>,
                                !.rateCounts = <<>>])
    /\ pendingStarts' = pendingStarts + 1
    /\ progressBeforeStart' = processing.progress
    /\ UNCHANGED <<original, results, merged, metrics, jobsIssued, incoming,
                   comparison>>

\* the progress recorded at the call of handleStartProcessing is of no use
\* once no request awaits its response
snapshotAfterResponse ==
    IF pendingStarts = 1 THEN InitialProgress ELSE progressBeforeStart

\* the server issues a new job id with every response
NewJob == jobsIssued + 1

\* the response carries a job id (lines 229-231), and the url effect
StartSucceed ==
    /\ pendingStarts > 0
    /\ FreeSources(sse) # {}
    /\ LET job == NewJob
       IN  /\ processing' = [processing EXCEPT !.jobId = job]
           /\ Commit(urlEffect(sse, processing.jobId, job), ctrl)
           /\ jobsIssued' = job
    /\ pendingStarts' = pendingStarts - 1
    /\ progressBeforeStart' = snapshotAfterResponse
    /\ UNCHANGED <<original, results, merged, metrics, incoming, comparison>>

\* startEvaluation throws (lines 233-242), and the url effect
StartFail ==
    /\ pendingStarts > 0
    /\ processing' = [processing EXCEPT !.isActive = FALSE, !.jobId = NoJob]
    /\ Commit(urlEffect(sse, processing.jobId, NoJob),
              [ctrl EXCEPT !.error = MsgStart,
                           !.connectionStatus = "disconnected"])
    /\ pendingStarts' = pendingStarts - 1
    /\ progressBeforeStart' = snapshotAfterResponse
    /\ UNCHANGED <<original, results, merged, metrics, jobsIssued, incoming,
                   comparison>>

\* a stop that keeps the progress and the rate history
StopKeepingProgress ==
    /\ canStop
    /\ processing' = [processing EXCEPT !.isActive = FALSE, !.jobId = NoJob,
                                        !.timeRemaining = NULL]
    /\ Commit(urlEffect(sse, processing.jobId, NoJob),
              [ctrl EXCEPT !.connectionStatus = "disconnected",
                           !.startTime = NULL,
                           !.error = NoError])
    /\ UNCHANGED <<original, results, merged, metrics, pendingStarts,
                   jobsIssued, progressBeforeStart,
                   incoming, comparison>>

\* handleStopProcessing (lines 245-264), and the url effect
Stop ==
    /\ canStop
    /\ processing' = [isActive |-> FALSE, jobId |-> NoJob,
                      progress |-> InitialProgress, timeRemaining |-> NULL]
    /\ Commit(urlEffect(sse, processing.jobId, NoJob),
              [ctrl EXCEPT !.connectionStatus = "disconnected",
                           !.startTime = NULL,
                           !.error = NoError,
                           !.rateTimes = <<>>,
                           !.rateCounts = <<>>])
    /\ UNCHANGED <<original, results, merged, metrics, pendingStarts,
                   jobsIssued, progressBeforeStart,
                   incoming, comparison>>

\* the Reconectar button: sseState.reconnect()
ReconnectClick ==
    /\ canReconnect
    /\ sse.urlRef # NoJob => FreeSources(sse) # {}
    /\ UNCHANGED processing
    /\ Commit(reconnect(sse), ctrl)
    /\ UNCHANGED <<original, results, merged, metrics, pendingStarts,
                   jobsIssued, progressBeforeStart,
                   incoming, comparison>>

\* an EventSource announces its connection: onopen
EsOpen(s) ==
    /\ sse.sources[s] = CONNECTING
    /\ UNCHANGED processing
    /\ Commit(onopen([sse EXCEPT !.sources[s] = OPEN]), ctrl)
    /\ UNCHANGED <<original, results, merged, metrics, pendingStarts,
                   jobsIssued, progressBeforeStart,
                   incoming, comparison>>

\* an EventSource loses or fails its connection: the browser either
\* reestablishes it (readyState CONNECTING) or gives up (CLOSED); onerror
EsError(s, readyState) ==
    /\ sse.sources[s] \in {CONNECTING, OPEN}
    /\ (readyState # CLOSED /\ ~attemptsExhausted(sse.reconnectCount))
           => sse.reconnectTimers < MaxTimers
    /\ UNCHANGED processing
    /\ Commit(onerror([sse EXCEPT !.sources[s] = readyState], readyState),
              handleSSEErrors(ctrl, onerrorCallbacks(sse, readyState)))
    /\ UNCHANGED <<original, results, merged, metrics, pendingStarts,
                   jobsIssued, progressBeforeStart,
                   incoming, comparison>>

\* handleProgress (lines 41-89) with Date.now() = now
handleProgress(progress, now) ==
    /\ IF Len(progress.results) > 0
       THEN /\ Len(results) + Len(progress.results) <= MaxResults
            /\ handleResultsUpdate(progress.results)
       ELSE UNCHANGED <<original, results, merged, metrics>>
    /\ processing' = [processing EXCEPT
           !.progress = [completed |-> progress.completed,
                         total |-> progress.total,
                         percentage |-> percentageOf(progress.completed,
                                                     progress.total)],
           !.timeRemaining = calculateTimeRemaining(ctrl.startTime,
                                 progress.completed, progress.total, now)]
    /\ Commit(sse,
              LET c == [ctrl EXCEPT !.connectionStatus = "connected",
                                    !.error = NoError]
              IN  IF Len(progress.results) > 0
                  THEN [c EXCEPT
                           !.rateTimes = pushSample(@, now),
                           !.rateCounts = pushSample(@, progress.completed)]
                  ELSE c)

\* onmessage with a batch_complete payload that carries results and
\* progress: onBatchComplete, handleProgress
EsBatch(s, progress, now) ==
    /\ sse.sources[s] = OPEN
    /\ handleProgress(progress, now)
    /\ UNCHANGED <<pendingStarts, jobsIssued, progressBeforeStart,
                   incoming, comparison>>

\* a completion that resets the progress and keeps the rate history
EsCompleteResetting(s) ==
    /\ sse.sources[s] = OPEN
    /\ processing' = [processing EXCEPT !.isActive = FALSE,
                                        !.progress = InitialProgress,
                                        !.timeRemaining = 0]
    /\ Commit(oncomplete(sse),
              [ctrl EXCEPT !.connectionStatus = "disconnected",
                           !.error = NoError])
    /\ UNCHANGED <<original, results, merged, metrics, pendingStarts,
                   jobsIssued, progressBeforeStart,
                   incoming, comparison>>

\* onmessage with a complete payload: onComplete (handleSSEComplete), then
\* the hook closes its connection
EsComplete(s) ==
    /\ sse.sources[s] = OPEN
    /\ processing' = [processing EXCEPT !.isActive = FALSE,
                                        !.timeRemaining = 0]
    /\ Commit(oncomplete(sse),
              [ctrl EXCEPT !.connectionStatus = "disconnected",
                           !.rateTimes = <<>>,
                           !.rateCounts = <<>>,
                           !.error = NoError])
    /\ UNCHANGED <<original, results, merged, metrics, pendingStarts,
                   jobsIssued, progressBeforeStart,
                   incoming, comparison>>

\* onmessage with data that JSON.parse rejects: onError
EsMalformed(s) ==
    /\ sse.sources[s] = OPEN
    /\ UNCHANGED processing
    /\ Commit(sse, handleSSEError(ctrl, MsgParse))
    /\ UNCHANGED <<original, results, merged, metrics, pendingStarts,
                   jobsIssued, progressBeforeStart,
                   incoming, comparison>>

\* a reconnection timer fires
ReconnectTimer ==
    /\ sse.reconnectTimers > 0
    /\ sse.urlRef # NoJob => FreeSources(sse) # {}
    /\ UNCHANGED processing
    /\ Commit(reconnectTimerFires(sse), ctrl)
    /\ UNCHANGED <<original, results, merged, metrics, pendingStarts,
                   jobsIssued, progressBeforeStart,
                   incoming, comparison>>

\* the connection timeout fires
ConnectionTimeout ==
    /\ sse.connectionTimeout # 0
    /\ UNCHANGED processing
    /\ Commit(connectionTimeoutFires(sse),
              IF timeoutExpired(sse)
              THEN handleSSEError(ctrl, ErrTimeout)
              ELSE ctrl)
    /\ UNCHANGED <<original, results, merged, metrics, pendingStarts,
                   jobsIssued, progressBeforeStart,
                   incoming, comparison>>

(***************************************************************************)
(* The application: uploads, start and stop, the stream and its timers     *)
(***************************************************************************)
\* the uploads, the batch payloads and the clock readings of this
\* specification
SessionData == {<<CSVRow("p1", <<2, NULL, NULL>>)>>}

SessionProgress ==
    {[completed |-> 0, total |-> 1, results |-> <<>>],
     [completed |-> 1, total |-> 1, results |-> <<APIResponse("p1", 1)>>]}

SessionClock == {1}

Init ==
    /\ original = <<>>
    /\ results = <<>>
    /\ merged = <<>>
    /\ processing = InitialProcessing
    /\ metrics = InitialMetrics
    /\ sse = InitialSSE
    /\ ctrl = InitialCtrl
    /\ pendingStarts = 0
    /\ jobsIssued = 0
    /\ incoming = <<>>
    /\ comparison = NoComparison
    /\ progressBeforeStart = InitialProgress

Next ==
    \/ \E data \in SessionData : LoadData(data)
    \/ \E now \in SessionClock : StartBegin(now)
    \/ StartSucceed
    \/ StartFail
    \/ Stop
    \/ ReconnectClick
    \/ \E s \in Sources : EsOpen(s)
    \/ \E s \in Sources, readyState \in {CONNECTING, CLOSED} :
           EsError(s, readyState)
    \/ \E s \in Sources, progress \in SessionProgress, now \in SessionClock :
           EsBatch(s, progress, now)
    \/ \E s \in Sources : EsComplete(s)
    \/ \E s \in Sources : EsMalformed(s)
    \/ ReconnectTimer
    \/ ConnectionTimeout

Spec == Init /\ [][Next]_vars

(***************************************************************************)
(* The reconciliation store alone: uploads and result batches              *)
(***************************************************************************)
StoreInit ==
    /\ original = <<>>
    /\ results = <<>>
    /\ merged = <<>>
    /\ processing = InitialProcessing
    /\ metrics = InitialMetrics
    /\ sse = InitialSSE
    /\ ctrl = InitialCtrl
    /\ pendingStarts = 0
    /\ jobsIssued = 0
    /\ incoming = <<>>
    /\ comparison = NoComparison
    /\ progressBeforeStart = InitialProgress

StoreLoad(data) ==
    /\ handleDataLoaded(data)
    /\ UNCHANGED sessionVars

StoreBatch(newResults) ==
    /\ Len(results) + Len(newResults) <= MaxResults
    /\ handleResultsUpdate(newResults)
    /\ UNCHANGED processing
    /\ UNCHANGED sessionVars

StoreNext ==
    \/ \E data \in SeqsUpTo(CSVRows, MaxRows) : StoreLoad(data)
    \/ \E newResults \in SeqsUpTo(APIResponses, MaxBatch) :
           StoreBatch(newResults)

StoreSpec == StoreInit /\ [][StoreNext]_vars

(***************************************************************************)
(* useSSE alone: rendered with one job id or another, its reconnect() and  *)
(* disconnect(), and the events of its EventSources and timers             *)
(***************************************************************************)
HookFrame ==
    UNCHANGED <<original, results, merged, metrics, ctrl, pendingStarts,
                jobsIssued, progressBeforeStart, incoming, comparison>>

\* useProcessingSSE(jobId) is rendered with another job id: the url effect
HookRender(jobId) ==
    /\ jobId # processing.jobId
    /\ EffectConnects(sse, processing.jobId, jobId) => FreeSources(sse) # {}
    /\ processing' = [processing EXCEPT !.jobId = jobId]
    /\ sse' = dropClosed(urlEffect(sse, processing.jobId, jobId))
    /\ HookFrame

HookReconnect ==
    /\ sse.urlRef # NoJob
    /\ FreeSources(sse) # {}
    /\ sse' = dropClosed(reconnect(sse))
    /\ UNCHANGED processing
    /\ HookFrame

HookDisconnect ==
    /\ sse' = dropClosed(disconnect(sse))
    /\ UNCHANGED processing
    /\ HookFrame

HookOpen(s) ==
    /\ sse.sources[s] = CONNECTING
    /\ sse' = dropClosed(onopen([sse EXCEPT !.sources[s] = OPEN]))
    /\ UNCHANGED processing
    /\ HookFrame

HookError(s, readyState) ==
    /\ sse.sources[s] \in {CONNECTING, OPEN}
    /\ (readyState # CLOSED /\ ~attemptsExhausted(sse.reconnectCount))
           => sse.reconnectTimers < MaxTimers
    /\ sse' = dropClosed(onerror([sse EXCEPT !.sources[s] = readyState],
                                 readyState))
    /\ UNCHANGED processing
    /\ HookFrame

HookComplete(s) ==
    /\ sse.sources[s] = OPEN
    /\ sse' = dropClosed(oncomplete(sse))
    /\ UNCHANGED processing
    /\ HookFrame

HookReconnectTimer ==
    /\ sse.reconnectTimers > 0
    /\ sse.urlRef # NoJob => FreeSources(sse) # {}
    /\ sse' = dropClosed(reconnectTimerFires(sse))
    /\ UNCHANGED processing
    /\ HookFrame

HookConnectionTimeout ==
    /\ sse.connectionTimeout # 0
    /\ sse' = dropClosed(connectionTimeoutFires(sse))
    /\ UNCHANGED processing
    /\ HookFrame

HookNext ==
    \/ \E jobId \in 0..MaxJobs : HookRender(jobId)
    \/ HookReconnect
    \/ HookDisconnect
    \/ \E s \in Sources : HookOpen(s)
    \/ \E s \in Sources, readyState \in {CONNECTING, CLOSED} :
           HookError(s, readyState)
    \/ \E s \in Sources : HookComplete(s)
    \/ HookReconnectTimer
    \/ HookConnectionTimeout

HookSpec == Init /\ [][HookNext]_vars

(***************************************************************************)
(* The named-event useSSE (hooks/useSSE.ts:42-271) alone.  Its handlers    *)
(* differ from the ones above in the complete listener, which leaves the   *)
(* connection open and schedules closeConnection one second later, and in  *)
(* the cleanup of the url effect, which is closeConnection itself.         *)
(***************************************************************************)
\* the hook's state with the pending delayed closes: the EventSources whose
\* complete listener scheduled one (the timer itself holds no reference)
NamedInitialSSE == InitialSSE @@ [closeTimers |-> {}]

\* a closed EventSource is kept while a delayed close it scheduled is pending
namedDropClosed(h) ==
    [h EXCEPT
        !.sources = [s \in Sources |->
                        IF Unreferenced(h, s) /\ s \notin h.closeTimers
                        THEN NONE ELSE h.sources[s]]]

\* the url effect (useSSE.ts:239-250), run when the url has changed
namedUrlEffect(h, oldUrl, url) ==
    IF url = oldUrl THEN h
    ELSE LET c == closeConnection(h)
         IN  IF url # NoJob /\ url # c.urlRef THEN connectToSSE(c, url)
             ELSE IF url = NoJob THEN closeConnection(c)
             ELSE c

\* the complete listener of EventSource s (useSSE.ts:134-146), after the
\* onComplete callback
namedComplete(h, s) == [h EXCEPT !.closeTimers = @ \cup {s}]

\* the callback of the delayed close scheduled by s (useSSE.ts:141)
closeTimerFires(h, s) == closeConnection([h EXCEPT !.closeTimers = @ \ {s}])

NamedInit ==
    /\ original = <<>>
    /\ results = <<>>
    /\ merged = <<>>
    /\ processing = InitialProcessing
    /\ metrics = InitialMetrics
    /\ sse = NamedInitialSSE
    /\ ctrl = InitialCtrl
    /\ pendingStarts = 0
    /\ jobsIssued = 0
    /\ progressBeforeStart = InitialProgress
    /\ incoming = <<>>
    /\ comparison = NoComparison

NamedRender(jobId) ==
    /\ jobId # processing.jobId
    /\ EffectConnects(sse, processing.jobId, jobId) => FreeSources(sse) # {}
    /\ processing' = [processing EXCEPT !.jobId = jobId]
    /\ sse' = namedDropClosed(namedUrlEffect(sse, processing.jobId, jobId))
    /\ HookFrame

NamedReconnect ==
    /\ sse.urlRef # NoJob
    /\ FreeSources(sse) # {}
    /\ sse' = namedDropClosed(reconnect(sse))
    /\ UNCHANGED processing
    /\ HookFrame

NamedDisconnect ==
    /\ sse' = namedDropClosed(disconnect(sse))
    /\ UNCHANGED processing
    /\ HookFrame

NamedOpen(s) ==
    /\ sse.sources[s] = CONNECTING
    /\ sse' = namedDropClosed(onopen([sse EXCEPT !.sources[s] = OPEN]))
    /\ UNCHANGED processing
    /\ HookFrame

NamedError(s, readyState) ==
    /\ sse.sources[s] \in {CONNECTING, OPEN}
    /\ (readyState # CLOSED /\ ~attemptsExhausted(sse.reconnectCount))
           => sse.reconnectTimers < MaxTimers
    /\ sse' = namedDropClosed(onerror([sse EXCEPT !.sources[s] = readyState],
                                      readyState))
    /\ UNCHANGED processing
    /\ HookFrame

\* the server sends one complete event on a stream
NamedComplete(s) ==
    /\ sse.sources[s] = OPEN
    /\ s \notin sse.closeTimers
    /\ sse' = namedDropClosed(namedComplete(sse, s))
    /\ UNCHANGED processing
    /\ HookFrame

NamedCloseTimer(s) ==
    /\ s \in sse.closeTimers
    /\ sse' = namedDropClosed(closeTimerFires(sse, s))
    /\ UNCHANGED processing
    /\ HookFrame

NamedReconnectTimer ==
    /\ sse.reconnectTimers > 0
    /\ sse.urlRef # NoJob => FreeSources(sse) # {}
    /\ sse' = namedDropClosed(reconnectTimerFires(sse))
    /\ UNCHANGED processing
    /\ HookFrame

NamedConnectionTimeout ==
    /\ sse.connectionTimeout # 0
    /\ sse' = namedDropClosed(connectionTimeoutFires(sse))
    /\ UNCHANGED processing
    /\ HookFrame

NamedNext ==
    \/ \E jobId \in 0..MaxJobs : NamedRender(jobId)
    \/ NamedReconnect
    \/ NamedDisconnect
    \/ \E s \in Sources : NamedOpen(s)
    \/ \E s \in Sources, readyState \in {CONNECTING, CLOSED} :
           NamedError(s, readyState)
    \/ \E s \in Sources : NamedComplete(s)
    \/ \E s \in Sources : NamedCloseTimer(s)
    \/ NamedReconnectTimer
    \/ NamedConnectionTimeout

NamedSpec == NamedInit /\ [][NamedNext]_vars

(***************************************************************************)
(* handleProgress alone: one batch_complete payload, of any counts         *)
(***************************************************************************)
\* the batch the specification documents: 150 of 1500
DocumentedProgress == [completed |-> 150, total |-> 1500, results |-> <<>>]

ProgressPayloads ==
    {[completed |-> c, total |-> t, results |-> <<>>] :
         c \in 0..MaxCompleted, t \in 1..MaxTotal}
    \cup {DocumentedProgress}

ProgressInit ==
    /\ original = <<>>
    /\ results = <<>>
    /\ merged = <<>>
    /\ processing = InitialProcessing
    /\ metrics = InitialMetrics
    /\ sse = InitialSSE
    /\ ctrl = InitialCtrl
    /\ pendingStarts = 0
    /\ jobsIssued = 0
    /\ progressBeforeStart = InitialProgress
    /\ incoming \in {<<progress>> : progress \in ProgressPayloads}
    /\ comparison = NoComparison

ProgressDeliver(now) ==
    /\ incoming # <<>>
    /\ handleProgress(Head(incoming), now)
    /\ incoming' = Tail(incoming)
    /\ UNCHANGED <<pendingStarts, jobsIssued, progressBeforeStart,
                   comparison>>

ProgressNext == \E now \in SessionClock : ProgressDeliver(now)

ProgressSpec == ProgressInit /\ [][ProgressNext]_vars

(***************************************************************************)
(* MetricsPanel's ICC alone: the paired score arrays it has extracted      *)
(* (MetricsPanel.tsx:74-75), then the call of calculateICC31 (line 76)     *)
(***************************************************************************)
Comparisons ==
    UNION {{[modelScores |-> m, humanMedians |-> h,
             computed |-> FALSE, icc |-> NullRatio] :
                m \in [1..n -> Scores], h \in [1..n -> Scores]} :
           n \in 0..MaxPairs}

IccInit ==
    /\ original = <<>>
    /\ results = <<>>
    /\ merged = <<>>
    /\ processing = InitialProcessing
    /\ metrics = InitialMetrics
    /\ sse = InitialSSE
    /\ ctrl = InitialCtrl
    /\ pendingStarts = 0
    /\ jobsIssued = 0
    /\ progressBeforeStart = InitialProgress
    /\ incoming = <<>>
    /\ comparison \in Comparisons

IccCompute ==
    /\ ~comparison.computed
    /\ comparison' =
           [comparison EXCEPT
               !.computed = TRUE,
               !.icc = calculateICC31(comparison.modelScores,
                                      comparison.humanMedians)]
    /\ UNCHANGED <<original, results, merged, processing, metrics, sse, ctrl,
                   pendingStarts, jobsIssued, progressBeforeStart, incoming>>

IccNext == IccCompute

IccSpec == IccInit /\ [][IccNext]_vars

(***************************************************************************)
(* calculateMetrics alone: a file and a result set, then the metrics that  *)
(* are derived from them (App.jsx:97-123). The rows and the results carry  *)
(* the identifiers p1, p2, ... in order, and the scores of the documented  *)
(* scenario: human scores [8,7,8], [9,8,9], [5,4,5], model scores 8, 8.5,  *)
(* 5 (in half points)                                                      *)
(***************************************************************************)
MetricIds == <<"p1", "p2", "p3", "p4", "p5">>
DocumentedEvals == <<(<<16, 14, 16>>), (<<18, 16, 18>>), (<<10, 8, 10>>)>>
DocumentedNotas == <<16, 17, 10>>

DocumentedFile ==
    [i \in 1..3 |-> CSVRow(MetricIds[i], DocumentedEvals[i])]
DocumentedResults ==
    [i \in 1..3 |-> APIResponse(MetricIds[i], DocumentedNotas[i])]

MetricsFiles ==
    UNION {{[i \in 1..n |-> CSVRow(MetricIds[i], DocumentedEvals[ev[i]])] :
               ev \in [1..n -> 1..3]} : n \in 0..MaxPairs}

MetricsResultSets ==
    UNION {{[i \in 1..n |-> APIResponse(MetricIds[i], DocumentedNotas[k[i]])] :
               k \in [1..n -> 1..3]} : n \in 0..MaxPairs}

MetricsInit ==
    /\ original \in MetricsFiles
    /\ results \in MetricsResultSets
    /\ merged = combineDataWithResults(original, results)
    /\ processing = InitialProcessing
    /\ metrics = InitialMetrics
    /\ sse = InitialSSE
    /\ ctrl = InitialCtrl
    /\ pendingStarts = 0
    /\ jobsIssued = 0
    /\ progressBeforeStart = InitialProgress
    /\ incoming = <<>>
    /\ comparison = NoComparison

\* whether metrics holds what calculateMetrics returned
MetricsComputed == "validPairs" \in DOMAIN metrics

MetricsCompute ==
    /\ ~MetricsComputed
    /\ metrics' = calculateMetrics(original, results)
    /\ UNCHANGED <<original, results, merged, processing, sse, ctrl,
                   pendingStarts, jobsIssued, progressBeforeStart, incoming,
                   comparison>>

MetricsNext == MetricsCompute

MetricsSpec == MetricsInit /\ [][MetricsNext]_vars

(***************************************************************************)
(* calculateMedian alone: a file of one row whose three human scores are   *)
(* each a whole number of points (6, 7, 9), null, undefined or NaN, then   *)
(* the merge that computes the row's mediana_humana                        *)
(***************************************************************************)
MedianScores == {12, 14, 18, NULL, UndefinedScore, NaN}

MedianInit ==
    /\ original \in {<<CSVRow("p1", ev)>> : ev \in [1..3 -> MedianScores]}
    /\ results = <<>>
    /\ merged = <<>>
    /\ processing = InitialProcessing
    /\ metrics = InitialMetrics
    /\ sse = InitialSSE
    /\ ctrl = InitialCtrl
    /\ pendingStarts = 0
    /\ jobsIssued = 0
    /\ progressBeforeStart = InitialProgress
    /\ incoming = <<>>
    /\ comparison = NoComparison

MedianNext == \E n \in Notas : StoreBatch(<<APIResponse("p1", n)>>)

MedianSpec == MedianInit /\ [][MedianNext]_vars

(***************************************************************************)
(* The rate history alone: one file, a job started, opened, stopped or     *)
(* completed, and batches that carry a result, delivered at times that do  *)
(* not go back (ProcessingController.tsx:41-89, 99-111, 209-264)           *)
(***************************************************************************)
RateClock == {1, 2}

RateProgress ==
    {[completed |-> c, total |-> 2, results |-> <<APIResponse("p1", 1)>>] :
        c \in 1..2}

\* Date.now() does not precede the start of the job or the last sample
ClockAt(now) ==
    /\ ctrl.startTime # NULL => ctrl.startTime <= now
    /\ ctrl.rateTimes # <<>> => ctrl.rateTimes[Len(ctrl.rateTimes)] <= now

RateBatch(s, progress, now) ==
    /\ ClockAt(now)
    /\ EsBatch(s, progress, now)

RateNext ==
    \/ \E data \in SessionData : LoadData(data)
    \/ \E now \in RateClock : StartBegin(now)
    \/ StartSucceed
    \/ Stop
    \/ \E s \in Sources : EsOpen(s)
    \/ \E s \in Sources, progress \in RateProgress, now \in RateClock :
           RateBatch(s, progress, now)
    \/ \E s \in Sources : EsComplete(s)

RateSpec == Init /\ [][RateNext]_vars

(***************************************************************************)
(* C1: latest result wins. When a batch is applied, the result the store   *)
(* then holds for an identifier the batch carries (once) is the batch's    *)
(* result, also when an earlier batch had already brought one for it.      *)
(***************************************************************************)
OccursOnce(batch, id) ==
    Cardinality({k \in DOMAIN batch : batch[k].id_alumno = id}) = 1

HoldsResult(held, r) ==
    \A i \in DOMAIN held :
        held[i].id_alumno = r.id_alumno => held[i].nota = r.nota

C1_LatestResultWins ==
    [][\A newResults \in SeqsUpTo(APIResponses, MaxBatch) :
          StoreBatch(newResults) =>
              \A k \in DOMAIN newResults :
                  OccursOnce(newResults, newResults[k].id_alumno) =>
                      HoldsResult(results', newResults[k])]_vars

(***************************************************************************)
(* C2: the result set holds at most one result per identifier, in every    *)
(* state reachable by uploads and batches of any content.                  *)
(***************************************************************************)
C2_UniqueResults ==
    \A i, j \in DOMAIN results :
        i # j => results[i].id_alumno # results[j].id_alumno

(***************************************************************************)
(* C3: cancellation is effective at once. While the session has no job id  *)
(* (stop has run, the stream url is null), no callback of an EventSource   *)
(* fires, no reconnection timer and no connection timeout fires, and so no *)
(* EventSource is created.                                                 *)
(***************************************************************************)
StreamCallback ==
    \E s \in Sources :
        \/ EsOpen(s)
        \/ \E readyState \in {CONNECTING, CLOSED} : EsError(s, readyState)
        \/ \E progress \in SessionProgress, now \in SessionClock :
               EsBatch(s, progress, now)
        \/ EsComplete(s)
        \/ EsMalformed(s)

C3_CancellationEffective ==
    [][processing.jobId = NoJob =>
          ~StreamCallback /\ ~ReconnectTimer /\ ~ConnectionTimeout]_vars

(***************************************************************************)
(* C4: the reconnect cap. A transport error that leaves its source not     *)
(* CLOSED schedules one more attempt and counts it while fewer than        *)
(* maxReconnectAttempts are counted; with maxReconnectAttempts counted it  *)
(* schedules none and leaves the hook closed with the could-not-reconnect  *)
(* error.                                                                  *)
(***************************************************************************)
C4_ReconnectCap ==
    [][\A s \in Sources :
          HookError(s, CONNECTING) =>
              IF sse.reconnectCount < maxReconnectAttempts
              THEN /\ sse'.reconnectCount = sse.reconnectCount + 1
                   /\ sse'.reconnectTimers = sse.reconnectTimers + 1
                   /\ sse'.isConnecting
                   /\ sse'.error = ErrRetrying
              ELSE /\ sse.reconnectCount = maxReconnectAttempts
                   /\ sse'.reconnectCount = maxReconnectAttempts
                   /\ sse'.reconnectTimers = sse.reconnectTimers
                   /\ ~sse'.isConnecting
                   /\ ~sse'.isConnected
                   /\ sse'.error = ErrLost]_vars

\* every attempt has failed and the hook has given up
C4_CapReached ==
    /\ sse.error = ErrLost
    /\ sse.reconnectCount = maxReconnectAttempts
    /\ ~sse.isConnecting
    /\ ~sse.isConnected

(***************************************************************************)
(* C5: Closed is terminal. From a hook closed by exhausted attempts or by  *)
(* the connection timeout, no step but reconnect() or the arrival of a new *)
(* job id leaves it connected or connecting.                               *)
(***************************************************************************)
SessionClosed ==
    /\ ~sse.isConnected
    /\ ~sse.isConnecting
    /\ sse.error \in {ErrLost, ErrTimeout}

C5_ClosedIsTerminal ==
    [][SessionClosed /\ ~ReconnectClick /\ ~StartSucceed =>
          ~sse'.isConnected /\ ~sse'.isConnecting]_vars

(***************************************************************************)
(* C6: every open signal leaves reconnectCount = 0, isConnected true,      *)
(* isConnecting false and error null, whatever the attempts counted        *)
(* before it.                                                              *)
(***************************************************************************)
C6_OpenResetsCount ==
    [][\A s \in Sources :
          HookOpen(s) =>
              /\ sse'.reconnectCount = 0
              /\ sse'.isConnected
              /\ ~sse'.isConnecting
              /\ sse'.error = NoError]_vars

\* connected, with the timer of a counted attempt still pending: the open
\* signal came after that attempt was counted
C6_OpenedAfterAttempt ==
    /\ sse.isConnected
    /\ sse.reconnectTimers > 0
    /\ sse.reconnectCount = 0

(***************************************************************************)
(* C7: the step on which the stream fails for good (attempts exhausted, or *)
(* connection timeout) leaves the processing session inactive.             *)
(***************************************************************************)
C7_InactiveOnStreamFailure ==
    [][sse'.error \in {ErrLost, ErrTimeout} /\ sse'.error # sse.error =>
          ~processing'.isActive]_vars

(***************************************************************************)
(* C8: the session holds a job id only while it is active.                 *)
(***************************************************************************)
C8_JobIdOnlyWhileActive ==
    processing.jobId # NoJob => processing.isActive

(***************************************************************************)
(* C9: a failed start leaks nothing: it leaves the session inactive,       *)
(* without job id, with the progress it had before the start, and with an  *)
(* error shown.                                                            *)
(***************************************************************************)
C9_FailedStartLeaksNothing ==
    [][StartFail =>
          /\ ~processing'.isActive
          /\ processing'.jobId = NoJob
          /\ processing'.progress = progressBeforeStart
          /\ ctrl'.error # NoError]_vars

(***************************************************************************)
(* C10: the stored percentage is completed / total * 100 rounded to a      *)
(* nearest integer, and it is 100 only when completed >= total.            *)
(***************************************************************************)
C10_PercentageRounded ==
    LET p == processing.progress
    IN  p.total >= 1 =>
            /\ 2 * p.total * p.percentage - p.total <= 200 * p.completed
            /\ 200 * p.completed <= 2 * p.total * p.percentage + p.total
            /\ p.percentage = 100 => p.completed >= p.total

(***************************************************************************)
(* C11: the merged view follows upload order. After every applied batch,   *)
(* data.merged has one row per original row, and its i-th row carries the  *)
(* fields of the i-th original row, whatever the order of arrival of the   *)
(* results.                                                                *)
(***************************************************************************)
CarriesRow(mergedRow, originalRow) ==
    /\ mergedRow.id_participante = originalRow.id_participante
    /\ mergedRow.evaluacion_1 = originalRow.evaluacion_1
    /\ mergedRow.evaluacion_2 = originalRow.evaluacion_2
    /\ mergedRow.evaluacion_3 = originalRow.evaluacion_3

Live(h, s) == h.sources[s] \in {CONNECTING, OPEN}

C12_CompleteClosesSession ==
    [][\A s \in Sources :
          EsComplete(s) =>
              /\ ~processing'.isActive
              /\ ~Live(sse', s)
              /\ sse'.eventSourceRef = 0
              /\ ~sse'.isConnected
              /\ ~sse'.isConnecting
              /\ sse'.reconnectTimers = 0
              /\ \A t \in Sources : ~Live(sse', t)]_vars

(***************************************************************************)
(* C13: the initial-connection timeout. When the connection timeout fires  *)
(* (no open signal has arrived since the connect), the hook is left not    *)
(* connecting with the timeout error, the error callback has received the  *)
(* timeout message, and the EventSource that is current at that moment is  *)
(* closed; and an open signal cancels the pending connection timeout.      *)
(***************************************************************************)
C13_ConnectionTimeout ==
    [][/\ ConnectionTimeout =>
              /\ ~sse'.isConnecting
              /\ sse'.error = ErrTimeout
              /\ ctrl'.error = ErrTimeout
              /\ sse.eventSourceRef # 0 => ~Live(sse', sse.eventSourceRef)
       /\ \A s \in Sources : EsOpen(s) => sse'.connectionTimeout = 0]_vars

(***************************************************************************)
(* C14: a message that cannot be parsed is a per-message error. Handling   *)
(* it leaves the state of the hook (isConnected, isConnecting,             *)
(* reconnectCount, the EventSources and the timers) unchanged, and changes *)
(* neither the connection status of the controller nor isActive. Only      *)
(* steps taken from a state in which the controller's effect has settled   *)
(* are considered, so that a change of status is the message's doing.      *)
(***************************************************************************)
StatusSettled == monitorSettle(ctrl, sse, processing.jobId) = {ctrl}

C14_MalformedIsPerMessage ==
    [][\A s \in Sources :
          (StatusSettled /\ EsMalformed(s)) =>
              /\ sse' = sse
              /\ processing'.isActive = processing.isActive
              /\ ctrl'.connectionStatus = ctrl.connectionStatus]_vars

(***************************************************************************)
(* C15: manual reconnection. While a stream url is known, reconnect()      *)
(* resets reconnectCount to 0, leaves no reconnection timer pending,       *)
(* replaces the connection timeout by the one of the new attempt, and      *)
(* leaves the hook connecting on a new EventSource that is its current     *)
(* one.                                                                    *)
(***************************************************************************)
C15_ManualReconnect ==
    [][HookReconnect =>
          /\ sse'.reconnectCount = 0
          /\ sse'.reconnectTimers = 0
          /\ sse'.isConnecting
          /\ ~sse'.isConnected
          /\ sse'.eventSourceRef # 0
          /\ sse'.sources[sse'.eventSourceRef] = CONNECTING
          /\ sse'.connectionTimeout = sse'.eventSourceRef]_vars

(***************************************************************************)
(* C16: the frame of stop. handleStopProcessing leaves the session         *)
(* inactive with no job, progress {0, 0, 0} and no remaining time, empties *)
(* the rate history, and leaves data.original, data.results and            *)
(* data.merged as they were.                                               *)
(***************************************************************************)
C16_StopFrame ==
    [][Stop =>
          /\ ~processing'.isActive
          /\ processing'.jobId = NoJob
          /\ processing'.progress =
                 [completed |-> 0, total |-> 0, percentage |-> 0]
          /\ processing'.timeRemaining = NULL
          /\ ctrl'.rateTimes = <<>>
          /\ ctrl'.rateCounts = <<>>
          /\ original' = original
          /\ results' = results
          /\ merged' = merged]_vars

\* a stopped session that keeps the results received before the stop
C16_StoppedWithResults ==
    /\ ~processing.isActive
    /\ processing.jobId = NoJob
    /\ processing.progress = [completed |-> 0, total |-> 0, percentage |-> 0]
    /\ ctrl.rateTimes = <<>>
    /\ jobsIssued > 0
    /\ Len(results) > 0
    /\ Len(merged) > 0

C18_LoadIsFullReset ==
    [][\A data \in SeqsUpTo(CSVRows, MaxRows) :
          LoadData(data) =>
              /\ original' = data
              /\ results' = <<>>
              /\ merged' = <<>>
              /\ metrics'.icc = NULL
              /\ metrics'.meanDeviation = NULL
              /\ metrics'.stdDeviation = NULL
              /\ ~metrics'.reliabilityMet
              /\ metrics'.processedCount = 0
              /\ ~processing'.isActive
              /\ processing'.jobId = NoJob
              /\ processing'.progress =
                     [completed |-> 0, total |-> 0, percentage |-> 0]
              /\ processing'.timeRemaining = NULL]_vars

\* a file loaded over a job that had delivered a batch: the rate history of
\* that job is still there, its results are not
C18_LoadedOverJob ==
    /\ Len(original) > 0
    /\ results = <<>>
    /\ merged = <<>>
    /\ metrics = InitialMetrics
    /\ processing = InitialProcessing
    /\ jobsIssued > 0
    /\ ctrl.rateTimes # <<>>

(***************************************************************************)
(* C19: a result whose identifier matches no original row is kept in the   *)
(* result set and left out of the metrics. After a batch is applied, every *)
(* result of the batch whose identifier was not yet held is in the result  *)
(* set, and the merged rows, the valid pairs and the ICC are those of the  *)
(* result set without the results that match no row.                      *)
(***************************************************************************)
HasRow(r) ==
    \E i \in DOMAIN original : original[i].id_participante = r.id_alumno

MatchedResults(apiResults) == SelectSeq(apiResults, HasRow)

C19_UnmatchedKeptButNotCounted ==
    [][\A newResults \in SeqsUpTo(APIResponses, MaxBatch) :
          StoreBatch(newResults) =>
              LET without == MatchedResults(results')
              IN  /\ \A i \in DOMAIN newResults :
                         \/ \E j \in DOMAIN results :
                                results[j].id_alumno = newResults[i].id_alumno
                         \/ \E j \in DOMAIN results' :
                                results'[j] = newResults[i]
                  /\ merged' = combineDataWithResults(original, without)
                  /\ validPairs(original, results')
                         = validPairs(original, without)
                  /\ calculateMetrics(original, results').icc
                         = calculateMetrics(original, without).icc
                  /\ calculateMetrics(original, results').validPairs
                         = calculateMetrics(original, without).validPairs]_vars

\* two rows paired with a result, an ICC computed, and a result held for an
\* identifier no row carries
C19_UnmatchedHeldWithIcc ==
    /\ \E i \in DOMAIN results : ~HasRow(results[i])
    /\ Len(validPairs(original, results)) = 2
    /\ calculateMetrics(original, results).icc # NullRatio
    /\ Len(merged) = 2

(***************************************************************************)
(* C20: for paired arrays of length n >= 2 in which every model score      *)
(* equals the paired human median, calculateICC31 returns 1, also when all *)
(* the values are the same constant.                                       *)
(***************************************************************************)
IdenticalPairs ==
    /\ comparison.computed
    /\ Len(comparison.modelScores) >= 2
    /\ comparison.modelScores = comparison.humanMedians

AllTheSame(scores) == \A i, j \in DOMAIN scores : scores[i] = scores[j]

RowsWithBoth ==
    {i \in DOMAIN original :
        /\ FindResult(results, original[i].id_participante) # 0
        /\ calculateMedian(original[i]) # NULL}

C21_IccNullBelowTwoPairs ==
    Cardinality(RowsWithBoth) < 2 =>
        /\ calculateMetrics(original, results).icc = NullRatio
        /\ panelIcc(original, results) = NullRatio

(***************************************************************************)
(* C22: for paired arrays of length n >= 2, calculateICC31 returns null or *)
(* a value in [0, 1], and 0 when (MSB - MSW) / (MSB + MSW) is negative, as *)
(* when one side is constant at 0 and the other constant at 10.            *)
(***************************************************************************)
PairedScores ==
    /\ comparison.computed
    /\ Len(comparison.modelScores) >= 2
    /\ Len(comparison.modelScores) = Len(comparison.humanMedians)

\* whether MSB < MSW: n (n - 1) times the sum of the squared differences of
\* the pairs exceeds the sum of the squared n (model + human) - total
RawNegative ==
    LET m == comparison.modelScores
        h == comparison.humanMedians
        n == Len(m)
        total == Sum(m) + Sum(h)
    IN  Sum([i \in 1..n |-> (n * (m[i] + h[i]) - total)
                                * (n * (m[i] + h[i]) - total)])
            < n * (n - 1) * Sum([i \in 1..n |-> (m[i] - h[i]) * (m[i] - h[i])])

C22_IccWithinUnitInterval ==
    PairedScores =>
        /\ \/ comparison.icc = NullRatio
           \/ /\ 0 <= comparison.icc[1]
              /\ comparison.icc[1] <= comparison.icc[2]
        /\ RawNegative => comparison.icc = Ratio(0, 1)

\* the model at 0 and the humans at 10 on every pair: 0 was returned
C22_OppositeConstants ==
    /\ PairedScores
    /\ \A i \in DOMAIN comparison.modelScores :
           /\ comparison.modelScores[i] = 0
           /\ comparison.humanMedians[i] = 20
    /\ RawNegative
    /\ comparison.icc = Ratio(0, 1)

(***************************************************************************)
(* C23: the reliability verdict is true exactly when the ICC is not null   *)
(* and greater than 0.8; and for the rows with human scores [8,7,8],       *)
(* [9,8,9], [5,4,5] and the model scores 8, 8.5, 5 the human medians are   *)
(* 8, 8, 5, the deviations 0, 0.5, 0 and the verdict is true.              *)
(***************************************************************************)
VerdictFollowsIcc ==
    metrics.reliabilityMet <=>
        (metrics.icc # NullRatio /\ 5 * metrics.icc[1] > 4 * metrics.icc[2])

DocumentedScenario ==
    original = DocumentedFile /\ results = DocumentedResults

HumanMedians ==
    LET pairs == validPairs(original, results)
    IN  [i \in DOMAIN pairs |-> pairs[i].human]

Deviations ==
    LET pairs == validPairs(original, results)
    IN  [i \in DOMAIN pairs |-> pairs[i].deviation]

C23_VerdictAndScenario ==
    MetricsComputed =>
        /\ VerdictFollowsIcc
        /\ DocumentedScenario =>
               /\ HumanMedians = <<16, 16, 10>>
               /\ Deviations = <<0, 1, 0>>
               /\ metrics.reliabilityMet

(***************************************************************************)
(* C23, as the code has it: the verdict is true exactly when the ICC is    *)
(* not null and greater than 0.8; in the documented scenario the human     *)
(* medians are 8, 9, 5 (the median of [9,8,9] is 9), the deviations are    *)
(* 0, 0.5, 0 and the verdict is true.                                      *)
(***************************************************************************)
C23_VerdictAndScenarioMedians ==
    MetricsComputed =>
        /\ VerdictFollowsIcc
        /\ DocumentedScenario =>
               /\ HumanMedians = <<16, 18, 10>>
               /\ Deviations = <<0, 1, 0>>
               /\ metrics.reliabilityMet

\* the documented scenario, computed, with a verdict of true
C23_ScenarioReliable ==
    /\ MetricsComputed
    /\ DocumentedScenario
    /\ metrics.reliabilityMet
    /\ metrics.validPairs = 3

(***************************************************************************)
(* C24: calculateMedian ignores the scores that are null, undefined or     *)
(* NaN; it returns null when no score is present, the score when one is,   *)
(* the mean of the two when two are, and the middle one in ascending order *)
(* when three are, whatever the order and the position of the scores:      *)
(* [7] gives 7, [7,9] gives 8, [6,7,9] gives 7.                            *)
(***************************************************************************)
HumanScores(row) == <<row.evaluacion_1, row.evaluacion_2, row.evaluacion_3>>

Present(row) ==
    {k \in 1..3 : HumanScores(row)[k] \notin {NULL, UndefinedScore, NaN}}

IsMedianOf(v, row) ==
    LET ev == HumanScores(row)
        P == Present(row)
    IN  CASE Cardinality(P) = 0 -> v = NULL
          [] Cardinality(P) = 1 -> \E k \in P : v = ev[k]
          [] Cardinality(P) = 2 ->
                 \E j, k \in P : j # k /\ 2 * v = ev[j] + ev[k]
          [] OTHER ->
                 /\ \E k \in P : v = ev[k]
                 /\ Cardinality({k \in P : ev[k] <= v}) >= 2
                 /\ Cardinality({k \in P : ev[k] >= v}) >= 2

C24_MedianOfPresentScores ==
    \A i \in DOMAIN merged :
        /\ IsMedianOf(merged[i].mediana_humana, merged[i])
        /\ (Present(merged[i]) # {}
              /\ \A k \in Present(merged[i]) :
                     HumanScores(merged[i])[k] = 14)
               => merged[i].mediana_humana = 14
        /\ (\E j, k \in 1..3 :
                /\ Present(merged[i]) = {j, k} /\ j # k
                /\ HumanScores(merged[i])[j] = 14
                /\ HumanScores(merged[i])[k] = 18)
               => merged[i].mediana_humana = 16
        /\ (\E j, k, l \in 1..3 :
                /\ HumanScores(merged[i])[j] = 12
                /\ HumanScores(merged[i])[k] = 14
                /\ HumanScores(merged[i])[l] = 18)
               => merged[i].mediana_humana = 14

\* the scores 9, 6, 7 in that order, merged with the median 7
C24_MedianOfUnsortedThree ==
    /\ Len(merged) = 1
    /\ HumanScores(merged[1]) = <<18, 12, 14>>
    /\ merged[1].mediana_humana = 14

(***************************************************************************)
(* C25: applying a batch is idempotent under retransmission. In the state  *)
(* handleResultsUpdate leaves after a batch, handleResultsUpdate of the    *)
(* same batch appends nothing and computes the same merged rows.           *)
(***************************************************************************)
C25_BatchIdempotent ==
    [][\A newResults \in SeqsUpTo(APIResponses, MaxBatch) :
          StoreBatch(newResults) =>
              LET again == results' \o uniqueNewResults(results', newResults)
              IN  /\ again = results'
                  /\ combineDataWithResults(original', again) = merged']_vars

\* a batch of two results has been applied to a file of two rows
C25_BatchApplied ==
    /\ Len(original) = 2
    /\ Len(results) = 2
    /\ results[1].id_alumno # results[2].id_alumno
    /\ \A i \in DOMAIN merged : merged[i].nota # NULL

(***************************************************************************)
(* C26: the rate history is bounded. Its list of times and its list of     *)
(* counts always have the same length, at most 5; a batch that carries     *)
(* results leaves in them the most recent samples in arrival order; and    *)
(* they are empty right after start, stop and completion.                  *)
(***************************************************************************)
KeepsMostRecent(before, after, x) ==
    LET all == Append(before, x)
        dropped == Len(all) - Len(after)
    IN  /\ Len(after) = IF Len(all) > 5 THEN 5 ELSE Len(all)
        /\ \A i \in DOMAIN after : after[i] = all[i + dropped]

C27_SingleLiveSource ==
    Cardinality({s \in Sources : Live(sse, s)}) <= 1

(***************************************************************************)
(* C28: in every reachable state of useSSE, isConnected and isConnecting   *)
(* are not both true and reconnectCount does not exceed                    *)
(* maxReconnectAttempts.                                                   *)
(***************************************************************************)
C28_FlagsExclusiveCountCapped ==
    /\ ~(sse.isConnected /\ sse.isConnecting)
    /\ sse.reconnectCount <= maxReconnectAttempts

\* the cap reached with a reconnection under way
C28_LastAttemptUnderWay ==
    /\ sse.reconnectCount = maxReconnectAttempts
    /\ sse.isConnecting
    /\ ~sse.isConnected

(***************************************************************************)
(* C29: a job-submission response that arrives after handleDataLoaded has  *)
(* reset the session sets no job id on the reset session and opens no      *)
(* stream.                                                                 *)
(***************************************************************************)
\* the session as handleDataLoaded leaves it, a request still awaiting its
\* response
ResetWhileAwaiting ==
    /\ pendingStarts > 0
    /\ processing = InitialProcessing
    /\ results = <<>>
    /\ merged = <<>>

C29_LateResponseIgnored ==
    [][(ResetWhileAwaiting /\ pendingStarts' < pendingStarts)
           => /\ processing'.jobId = NoJob
              /\ sse'.sources = sse.sources]_vars

(***************************************************************************)
(* C30: in the named-event useSSE, the close scheduled one second after a  *)
(* complete event closes only the connection that delivered that event: a  *)
(* connection opened meanwhile is not closed by it and the state of the    *)
(* hook is not set to disconnected.                                        *)
(***************************************************************************)
C30_StaleCloseSparesNewConnection ==
    [][\A s \in Sources :
          (/\ s \in sse.closeTimers
           /\ s \notin sse'.closeTimers
           /\ sse.eventSourceRef \notin {0, s})
              => /\ sse'.sources[sse.eventSourceRef]
                     = sse.sources[sse.eventSourceRef]
                 /\ sse'.eventSourceRef = sse.eventSourceRef
                 /\ sse'.isConnected = sse.isConnected
                 /\ sse'.isConnecting = sse.isConnecting]_vars

=============================================================================
